---- MODULE Spec2Model ----
(***************************************************************************)
(* Model of kokoro.js/src/splitter.js: the streaming sentence splitter     *)
(* (TextSplitterStream.push / close / _process and split).                 *)
(*                                                                         *)
(* A text is a sequence of characters; a character is a one-character      *)
(* string, and a character outside ASCII is written by its code point      *)
(* ("u2026" is the horizontal ellipsis).  Indices into buffers are the     *)
(* 0-based indices of the source; At(s, k) is s[k] of the source.          *)
(***************************************************************************)
EXTENDS Integers, Sequences, FiniteSets, TLC

VARIABLES
    buffer,      \* this.buffer
    emitted,     \* the strings the callback has been invoked with, in order
    pc,          \* "idle" | "scan" | "emit" | "closing" | "closed": position of the caller
    i,           \* _process: scan position
    flushIndex,  \* _process: start of the unfinalized sentence
    stack,       \* _process: nesting stack
    sentences,   \* _process: sentences accepted in this scan
    k,           \* _process: index of the next sentence handed to the callback
    stopped,     \* _process: the scan loop was left by break
    iters,       \* number of iterations of the scan loop in this scan
    why,         \* the branch the last iteration of the scan loop took
    text,        \* concatenation of all chunks pushed since construction / last close
    accepts      \* boundaries accepted so far, in positions of text

vars == <<buffer, emitted, pc, i, flushIndex, stack, sentences, k, stopped,
          iters, why, text, accepts>>

(***************************************************************************)
(* Bounds of the exploration.                                              *)
(***************************************************************************)
MaxLen == 5      \* longest text over one of the Alphabets pushed before a close
MaxReuse == 1    \* longest closed text after which the splitter is pushed to again

(***************************************************************************)
(* Strings.                                                                *)
(***************************************************************************)
At(s, idx) == s[idx + 1]

\* s.substring(a, b) / s.slice(a, b) for 0 <= a, b
Substring(s, a, b) == SubSeq(s, a + 1, b)

\* the smaller of the two in the place of the larger
MaxAsMin(a, b) == IF a <= b THEN a ELSE b
Max(a, b) == IF a >= b THEN a ELSE b

\* The characters matched by /\s/ (and removed by String.prototype.trim).
WhiteSpace ==
    {" ", "\t", "\n", "\r", "\f", "u000B", "u00A0", "u1680", "u2000", "u2001",
     "u2002", "u2003", "u2004", "u2005", "u2006", "u2007", "u2008", "u2009",
     "u200A", "u2028", "u2029", "u202F", "u205F", "u3000", "uFEFF"}

IsSpace(c) == c \in WhiteSpace

UpperCase == <<"A", "B", "C", "D", "E", "F", "G", "H", "I", "J", "K", "L", "M",
               "N", "O", "P", "Q", "R", "S", "T", "U", "V", "W", "X", "Y", "Z">>
LowerCase == <<"a", "b", "c", "d", "e", "f", "g", "h", "i", "j", "k", "l", "m",
               "n", "o", "p", "q", "r", "s", "t", "u", "v", "w", "x", "y", "z">>

IsUpper(c) == \E x \in 1..26 : UpperCase[x] = c     \* /[A-Z]/
\* the upper-case range in the place of the lower-case one
IsLowerAsUpper(c) == \E x \in 1..26 : UpperCase[x] = c
IsLower(c) == \E x \in 1..26 : LowerCase[x] = c     \* /[a-z]/
IsLetter(c) == IsUpper(c) \/ IsLower(c)             \* /[A-Za-z]/
IsDigit(c) == c \in {"0", "1", "2", "3", "4", "5", "6", "7", "8", "9"}  \* /\d/

\* String.prototype.toLowerCase, as far as the program uses it: its result is
\* looked up in a set of words made of ASCII characters.  For an ASCII
\* character d, c.toLowerCase() === d exactly when c is d and d is not one of
\* A-Z, or c is the upper-case letter of d, or d is "k" and c is the Kelvin
\* sign U+212A, the one code unit outside ASCII that lowers to an ASCII
\* character (U+0130 lowers to "i" and U+0307, two code units).
lowersTo(c, d) ==
    \/ c = d /\ ~IsUpper(d)
    \/ \E x \in 1..26 : UpperCase[x] = c /\ LowerCase[x] = d
    \/ c = "u212A" /\ d = "k"

\* s.toLowerCase() === a, for a made of ASCII characters: no code unit is
\* dropped and none of a's characters comes from more than one code unit.
toLowerCaseIs(s, a) ==
    /\ Len(s) = Len(a)
    /\ \A x \in 1..Len(s) : lowersTo(s[x], a[x])

RECURSIVE TrimStart(_)
TrimStart(s) == IF s # <<>> /\ IsSpace(s[1]) THEN TrimStart(Tail(s)) ELSE s
RECURSIVE TrimEnd(_)
TrimEnd(s) == IF s # <<>> /\ IsSpace(s[Len(s)]) THEN TrimEnd(SubSeq(s, 1, Len(s) - 1)) ELSE s
TrimStartOnly(s) == TrimStart(s)
trim(s) == TrimEnd(TrimStart(s))

\* s.includes(p) for sequences of characters
Includes(s, p) == \E a \in 0..(Len(s) - Len(p)) : Substring(s, a, a + Len(p)) = p

(***************************************************************************)
(* Character classes.                                                      *)
(***************************************************************************)
isSentenceTerminator(c) == c \in {".", "!", "?", "u2026", "u3002", "uFF1F", "uFF01", "\n"}

isTrailingChar(c) == c \in {"\"", "'", ")", "]", "}", "u300D", "u300F"}

RECURSIVE TokenEnd(_, _)
TokenEnd(buf, end) ==
    IF end < Len(buf) /\ ~IsSpace(At(buf, end)) THEN TokenEnd(buf, end + 1) ELSE end

getTokenFromBuffer(buf, start) == Substring(buf, start, TokenEnd(buf, start))

ABBREVIATIONS ==
    {<<"m","r">>, <<"m","r","s">>, <<"m","s">>, <<"d","r">>, <<"p","r","o","f">>,
     <<"s","r">>, <<"j","r">>, <<"s","g","t">>, <<"c","o","l">>, <<"g","e","n">>,
     <<"r","e","p">>, <<"s","e","n">>, <<"g","o","v">>, <<"l","t">>, <<"m","a","j">>,
     <<"c","a","p","t">>, <<"s","t">>, <<"m","t">>, <<"e","t","c">>, <<"c","o">>,
     <<"i","n","c">>, <<"l","t","d">>, <<"d","e","p","t">>, <<"v","s">>, <<"p">>,
     <<"p","g">>, <<"j","a","n">>, <<"f","e","b">>, <<"m","a","r">>, <<"a","p","r">>,
     <<"j","u","n">>, <<"j","u","l">>, <<"a","u","g">>, <<"s","e","p">>,
     <<"s","e","p","t">>, <<"o","c","t">>, <<"n","o","v">>, <<"d","e","c">>,
     <<"s","u","n">>, <<"m","o","n">>, <<"t","u">>, <<"t","u","e">>,
     <<"t","u","e","s">>, <<"w","e","d">>, <<"t","h">>, <<"t","h","u">>,
     <<"t","h","u","r">>, <<"t","h","u","r","s">>, <<"f","r","i">>, <<"s","a","t">>}

\* token.replace(/['’]s$/i, "")
StripPossessive(t) ==
    IF Len(t) >= 2 /\ t[Len(t)] \in {"s", "S"} /\ t[Len(t) - 1] \in {"'", "u2019"}
    THEN SubSeq(t, 1, Len(t) - 2) ELSE t

\* token.replace(/\.+$/, "")
RECURSIVE StripPeriods(_)
StripPeriods(t) ==
    IF t # <<>> /\ t[Len(t)] = "." THEN StripPeriods(SubSeq(t, 1, Len(t) - 1)) ELSE t

\* ABBREVIATIONS.has(token.toLowerCase()), token stripped as above
isAbbreviation(token) ==
    \E a \in ABBREVIATIONS : toLowerCaseIs(StripPeriods(StripPossessive(token)), a)

\* closing bracket -> opening bracket
MATCHING ==
    (")" :> "(") @@ ("]" :> "[") @@ ("}" :> "{") @@ ("u300B" :> "u300A") @@
    ("u3009" :> "u3008") @@ ("u203A" :> "u2039") @@ ("u00BB" :> "u00AB") @@
    ("u232A" :> "u2329") @@ ("u300D" :> "u300C") @@ ("u300F" :> "u300E")

OPENING == {MATCHING[c] : c \in DOMAIN MATCHING}

Top(st) == st[Len(st)]
Pop(st) == SubSeq(st, 1, Len(st) - 1)

\* a closing bracket pops whatever is on top of the stack
updateStackPopAny(c, st, idx, buf) ==
    IF c = "\"" \/ c = "'" THEN
        IF c = "'" /\ idx > 0 /\ idx < Len(buf) - 1
           /\ IsLetter(At(buf, idx - 1)) /\ IsLetter(At(buf, idx + 1))
        THEN st
        ELSE IF Len(st) > 0 /\ Top(st) = c THEN Pop(st) ELSE Append(st, c)
    ELSE IF c \in OPENING THEN Append(st, c)
    ELSE IF c \in DOMAIN MATCHING THEN
        IF Len(st) > 0 THEN Pop(st) ELSE st
    ELSE st

\* no exception for an apostrophe between letters
updateStackNoContraction(c, st, idx, buf) ==
    IF c = "\"" \/ c = "'" THEN
        IF Len(st) > 0 /\ Top(st) = c THEN Pop(st) ELSE Append(st, c)
    ELSE IF c \in OPENING THEN Append(st, c)
    ELSE IF c \in DOMAIN MATCHING THEN
        IF Len(st) > 0 /\ Top(st) = MATCHING[c] THEN Pop(st) ELSE st
    ELSE st

\* The stack after updateStack(c, stack, idx, buf).
updateStack(c, st, idx, buf) ==
    IF c = "\"" \/ c = "'" THEN
        IF c = "'" /\ idx > 0 /\ idx < Len(buf) - 1
           /\ IsLetter(At(buf, idx - 1)) /\ IsLetter(At(buf, idx + 1))
        THEN st
        ELSE IF Len(st) > 0 /\ Top(st) = c THEN Pop(st) ELSE Append(st, c)
    ELSE IF c \in OPENING THEN Append(st, c)
    ELSE IF c \in DOMAIN MATCHING THEN
        IF Len(st) > 0 /\ Top(st) = MATCHING[c] THEN Pop(st) ELSE st
    ELSE st

(***************************************************************************)
(* The tests of _process.                                                  *)
(***************************************************************************)
\* /(^|\n)\d+$/.test(current)
RECURSIVE DigitRun(_)
DigitRun(s) ==
    IF s # <<>> /\ IsDigit(s[Len(s)]) THEN 1 + DigitRun(SubSeq(s, 1, Len(s) - 1)) ELSE 0

\* the list marker is recognised at the start of the unflushed text only
isNumberedListAtStartOnly(current) ==
    Len(current) >= 1 /\ \A x \in 1..Len(current) : IsDigit(current[x])
isNumberedList(current) ==
    LET d == DigitRun(current)
    IN  d >= 1 /\ (d = Len(current) \/ current[Len(current) - d] = "\n")

\* the run of terminators is not consumed
SkipTerminatorsNone(buf, j) == j
\* while (j + 1 < len && isSentenceTerminator(buffer[j + 1])) ++j;
RECURSIVE SkipTerminators(_, _)
SkipTerminators(buf, j) ==
    IF j + 1 < Len(buf) /\ isSentenceTerminator(At(buf, j + 1))
    THEN SkipTerminators(buf, j + 1) ELSE j

\* the trailing characters after the terminators are not consumed
SkipTrailingNone(buf, j) == j
\* while (j + 1 < len && isTrailingChar(buffer[j + 1])) ++j;
RECURSIVE SkipTrailing(_, _)
SkipTrailing(buf, j) ==
    IF j + 1 < Len(buf) /\ isTrailingChar(At(buf, j + 1))
    THEN SkipTrailing(buf, j + 1) ELSE j

\* j after both loops, started at the terminator
ConsumeRun(buf, idx) == SkipTrailing(buf, SkipTerminators(buf, idx))

\* while (n < len && /\s/.test(buffer[n])) ++n;
RECURSIVE SkipSpaces(_, _)
SkipSpaces(buf, n) ==
    IF n < Len(buf) /\ IsSpace(At(buf, n)) THEN SkipSpaces(buf, n + 1) ELSE n

\* while (tokenStart >= 0 && /\S/.test(buffer[tokenStart])) --tokenStart;
RECURSIVE TokenBack(_, _)
TokenBack(buf, ts) ==
    IF ts >= 0 /\ ~IsSpace(At(buf, ts)) THEN TokenBack(buf, ts - 1) ELSE ts

\* /https?[,:]\/\//.test(token)
hasUrlScheme(token) ==
    \E a \in 0..(Len(token) - 7) :
        /\ Substring(token, a, a + 4) = <<"h", "t", "t", "p">>
        /\ LET b == IF At(token, a + 4) = "s" THEN a + 5 ELSE a + 4
           IN  /\ b + 3 <= Len(token)
               /\ At(token, b) \in {",", ":"}
               /\ At(token, b + 1) = "/"
               /\ At(token, b + 2) = "/"

isUrlOrEmail(token) == hasUrlScheme(token) \/ Includes(token, <<"@">>)

\* lower-case initials only
isInitialsLowerOnly(token) ==
    /\ Len(token) >= 2
    /\ Len(token) % 2 = 0
    /\ \A x \in 1..Len(token) :
          IF x % 2 = 1 THEN IsLower(token[x]) ELSE token[x] = "."
\* /^([A-Za-z]\.)+$/.test(token)
isInitials(token) ==
    /\ Len(token) >= 2
    /\ Len(token) % 2 = 0
    /\ \A x \in 1..Len(token) :
          IF x % 2 = 1 THEN IsLetter(token[x]) ELSE token[x] = "."

\* only the one-character ellipsis is recognised
isEllipsisCharOnly(sentence) == sentence = <<"u2026">>
isEllipsis(sentence) == sentence = <<".", ".", ".">> \/ sentence = <<"u2026">>

\* if (i === n - 1): no space after the terminator
NeverNoGap(idx, n) == FALSE
isNoGap(idx, n) == idx = n - 1

\* if (n === len): no non-whitespace character yet
NeverDeferred(n, len) == FALSE
isDeferred(n, len) == n = len

\* this.buffer.substring(flushIndex, j + 1).trim()
SentenceShort(buf, f, j) == trim(Substring(buf, f, j))
sentenceOf(buf, f, j) == trim(Substring(buf, f, j + 1))

(***************************************************************************)
(* One iteration of the scan loop of _process, as a function of the loop   *)
(* state s = [i, flushIndex, stack, sentences, stopped, why, acc], where   *)
(* why names the branch taken and acc records the boundary an accepting    *)
(* iteration accepts.                                                      *)
(***************************************************************************)
ScanIter(buf, s) ==
    LET len == Len(buf)
        c == At(buf, s.i)
        st == updateStack(c, s.stack, s.i, buf)
        current == Substring(buf, s.flushIndex, s.i)
        j == ConsumeRun(buf, s.i)
        n == SkipSpaces(buf, j + 1)
        tokenStart == Max(s.flushIndex, TokenBack(buf, s.i - 1) + 1)
        token == getTokenFromBuffer(buf, tokenStart)
        sentence == sentenceOf(buf, s.flushIndex, j)
        step(w) == [s EXCEPT !.i = s.i + 1, !.stack = st, !.why = w, !.acc = <<>>]
    IN  IF ~(Len(st) = 0 /\ isSentenceTerminator(c)) THEN step("plain")
        ELSE IF isNumberedList(current) THEN step("list")
        ELSE IF isNoGap(s.i, n) THEN step("nogap")
        ELSE IF isDeferred(n, len) THEN
            [s EXCEPT !.stack = st, !.stopped = TRUE, !.why = "defer", !.acc = <<>>]
        ELSE IF isUrlOrEmail(token) /\ ~isSentenceTerminator(token[Len(token)]) THEN
            [s EXCEPT !.i = tokenStart + Len(token), !.stack = st, !.why = "url",
                      !.acc = <<>>]
        ELSE IF isAbbreviation(token) THEN step("abbreviation")
        ELSE IF isInitials(token) /\ n < len /\ IsUpper(At(buf, n)) THEN step("initials")
        ELSE IF c = "." /\ n < len /\ IsLower(At(buf, n)) THEN step("lowercase")
        ELSE IF isEllipsis(sentence) THEN step("ellipsis")
        ELSE [s EXCEPT !.i = j + 1, !.flushIndex = j + 1, !.stack = st,
                       !.sentences = IF sentence # <<>> THEN Append(s.sentences, sentence)
                                     ELSE s.sentences,
                       !.why = "accept",
                       !.acc = <<[i |-> s.i, j |-> j, n |-> n]>>]

\* The loop state at the start of _process.
ScanStart ==
    [i |-> 0, flushIndex |-> 0, stack |-> <<>>, sentences |-> <<>>,
     stopped |-> FALSE, why |-> "none", acc |-> <<>>]

ScanOver(buf, s) == s.i >= Len(buf) \/ s.stopped

\* The loop state when the loop is left; when it is not left within fuel
\* iterations, the state reached, marked why = "hang".
RECURSIVE RunScan(_, _, _)
RunScan(buf, s, fuel) ==
    IF ScanOver(buf, s) THEN s
    ELSE IF fuel = 0 THEN [s EXCEPT !.why = "hang"]
    ELSE RunScan(buf, ScanIter(buf, s), fuel - 1)

\* The non-empty members of a list of sentences, in order.
NonEmpty(ss) == SelectSeq(ss, LAMBDA x : Len(x) > 0)

\* What close() hands to the callback for a buffer.
RemainderUntrimmed(buf) == IF Len(buf) > 0 THEN <<buf>> ELSE <<>>
Remainder(buf) == IF Len(trim(buf)) > 0 THEN <<trim(buf)>> ELSE <<>>

\* The scan of push(t) on a new splitter.  An iteration that does not end the
\* loop moves i forward or repeats for ever, so Len(t) + 1 iterations decide.
scanOf(t) == RunScan(t, ScanStart, Len(t) + 1)

\* split(t) does not return
splitHangs(t) == scanOf(t).why = "hang"

\* split(t), when it returns
split(t) ==
    LET s == scanOf(t)
    IN  NonEmpty(s.sentences) \o Remainder(Substring(t, s.flushIndex, Len(t)))

(***************************************************************************)
(* The inputs: every text of at most MaxLen characters over one of the     *)
(* Alphabets, and every prefix of one of the Samples, cut into chunks in   *)
(* every possible way.                                                     *)
(***************************************************************************)
Alphabets ==
    { {"a", "A", ".", "!", " ", "\n"},
      {"@", "!", "b", " ", "\n", ")"},
      {"p", ".", " ", "A", "'", "s"},
      {"(", ")", "!", " ", "a", "\""},
      {"1", ".", " ", "\n", "A"},
      {"p", ".", "u2019", "s", " ", "A"} }

Samples ==
    { <<"D","r","."," ","S","m","i","t","h"," ","i","s"," ","i","n","."," ","O","k">>,
      <<"J","r",".","'","s"," ","O","k","."," ","A">>,
      <<"J","r",".","u2019","s"," ","O","k","."," ","A">>,
      <<"I","t","u2019","s"," ","o","k","."," ","I","u2019","l","l"," ","g","o",".">>,
      <<"a","@","b","!","!","(","c"," ","d","!"," ","e",")">>,
      <<"t","e","x","t","!","?","t","e","x","t">>,
      <<"t","e","x","t","u3002","u3002","t","e","x","t">>,
      <<"1","."," ","1","s","t"," ","t","e","x","t",".","\n","2","."," ","2","n","d"," ","t","e","x","t",".","\n","1","0","."," ","1","0","t","h"," ","t","e","x","t",".">>,
      <<"M","y"," ","n","a","m","e"," ","i","s"," ","J","o","n","a","s"," ","E","."," ","S","m","i","t","h",".">>,
      <<"J",".","R",".","R","."," ","T","o","l","k","i","e","n">>,
      <<"A","r","e"," ","y","o","u"," ","c","o","m","i","n","g","?"," ",".",".","."," ","I"," ","d","o","n","'","t"," ","k","n","o","w",".">>,
      <<"F","i","r","s","t"," ","l","i","n","e","\n","S","e","c","o","n","d"," ","l","i","n","e">>,
      <<"W","a","i","t",".",".","."," ","w","h","a","t">>,
      <<"Y","o","u"," ","c","a","n","'","t"," ","b","e"," ","s","e","r","i","o","u","s","."," ","I","t","'","s"," ","t","o","o"," ","l","a","t","e",".">>,
      <<"W","a","i","t","!","!","!","!"," ","A","r","e"," ","y","o","u"," ","s","u","r","e","?","?","?"," ","T","h","i","s"," ","i","s"," ","i","n","s","a","n","e","!","!","!"," ","R","i","g","h","t","?","?","?">> }

Range(s) == {s[x] : x \in 1..Len(s)}

IsPrefix(p, s) == Len(p) <= Len(s) /\ SubSeq(s, 1, Len(p)) = p

\* The chunks that may be pushed when t has been pushed so far.
Chunks(t) ==
    UNION { UNION { [1..m -> A] : m \in 0..(MaxLen - Len(t)) } :
              A \in {B \in Alphabets : Range(t) \subseteq B /\ Len(t) <= MaxLen} }
    \cup UNION { { SubSeq(S, Len(t) + 1, m) : m \in Len(t)..Len(S) } :
                  S \in {R \in Samples : IsPrefix(t, R)} }

(***************************************************************************)
(* The state machine.                                                      *)
(***************************************************************************)
Init == /\ buffer = <<>>
        /\ emitted = <<>>
        /\ pc = "idle"
        /\ i = 0
        /\ flushIndex = 0
        /\ stack = <<>>
        /\ sentences = <<>>
        /\ k = 0
        /\ stopped = FALSE
        /\ iters = 0
        /\ why = "none"
        /\ text = <<>>
        /\ accepts = {}

\* Position in text of buffer[0]: the buffer is the tail of text.
Base == Len(text) - Len(buffer)

\* push(chunk): append, then _process starts.  The first push after a close
\* starts a new session of the observer (text, emitted, accepts).
Push(chunk) ==
    /\ pc \in {"idle", "closed"}
    /\ buffer' = buffer \o chunk
    /\ text' = IF pc = "closed" THEN chunk ELSE text \o chunk
    /\ emitted' = IF pc = "closed" THEN <<>> ELSE emitted
    /\ accepts' = IF pc = "closed" THEN {} ELSE accepts
    /\ i' = 0
    /\ flushIndex' = 0
    /\ stack' = <<>>
    /\ sentences' = <<>>
    /\ stopped' = FALSE
    /\ iters' = 0
    /\ why' = "none"
    /\ k' = 0
    /\ pc' = "scan"

\* One iteration of while (i < len) { ... }
ScanStep ==
    /\ pc = "scan"
    /\ i < Len(buffer) /\ ~stopped
    /\ iters <= Len(buffer)
    /\ LET s == ScanIter(buffer, [i |-> i, flushIndex |-> flushIndex, stack |-> stack,
                                  sentences |-> sentences, stopped |-> stopped,
                                  why |-> why, acc |-> <<>>])
       IN  /\ i' = s.i
           /\ flushIndex' = s.flushIndex
           /\ stack' = s.stack
           /\ sentences' = s.sentences
           /\ stopped' = s.stopped
           /\ why' = s.why
           /\ accepts' = accepts \cup
                 { [i |-> Base + a.i, j |-> Base + a.j, n |-> Base + a.n] : a \in Range(s.acc) }
    /\ iters' = iters + 1
    /\ UNCHANGED <<buffer, emitted, pc, k, text>>

\* the buffer is kept whole
bufferFromWhole(buf, f) == buf

\* the kept part of the buffer loses its leading whitespace
bufferFromTrimmed(buf, f) == TrimStart(Substring(buf, f, Len(buf)))
\* this.buffer.substring(flushIndex)
bufferFrom(buf, f) == Substring(buf, f, Len(buf))

\* The loop is left: this.buffer = this.buffer.substring(flushIndex)
ScanEnd ==
    /\ pc = "scan"
    /\ i >= Len(buffer) \/ stopped
    /\ buffer' = bufferFrom(buffer, flushIndex)
    /\ pc' = "emit"
    /\ k' = 0
    /\ UNCHANGED <<emitted, i, flushIndex, stack, sentences, stopped, iters, why, text, accepts>>

\* for (const s of sentences) if (s.length > 0) this.callback(s)
Emit ==
    /\ pc = "emit"
    /\ k < Len(sentences)
    /\ emitted' = IF Len(sentences[k + 1]) > 0 THEN Append(emitted, sentences[k + 1])
                  ELSE emitted
    /\ k' = k + 1
    /\ UNCHANGED <<buffer, pc, i, flushIndex, stack, sentences, stopped, iters, why, text, accepts>>

\* _process and push return; the locals of _process go out of scope
Return ==
    /\ pc = "emit"
    /\ k = Len(sentences)
    /\ pc' = "idle"
    /\ i' = 0
    /\ flushIndex' = 0
    /\ stack' = <<>>
    /\ sentences' = <<>>
    /\ k' = 0
    /\ stopped' = FALSE
    /\ iters' = 0
    /\ why' = "none"
    /\ UNCHANGED <<buffer, emitted, text, accepts>>

\* close(), up to the callback: the trimmed buffer, when it is not empty, is
\* handed to the callback while the buffer is still as it was.  A close on a
\* closed splitter starts a new session of the observer.
Close ==
    /\ pc \in {"idle", "closed"}
    /\ emitted' = (IF pc = "closed" THEN <<>> ELSE emitted) \o Remainder(buffer)
    /\ text' = IF pc = "closed" THEN <<>> ELSE text
    /\ accepts' = IF pc = "closed" THEN {} ELSE accepts
    /\ pc' = "closing"
    /\ UNCHANGED <<buffer, i, flushIndex, stack, sentences, k, stopped, iters, why>>

\* close() returns without this.buffer = ""
CloseKeepsBuffer ==
    /\ pc = "closing"
    /\ pc' = "closed"
    /\ UNCHANGED <<buffer, emitted, i, flushIndex, stack, sentences, k, stopped, iters, why,
                   text, accepts>>

\* close(), after the callback: this.buffer = "", and close returns
CloseClear ==
    /\ pc = "closing"
    /\ buffer' = <<>>
    /\ pc' = "closed"
    /\ UNCHANGED <<emitted, i, flushIndex, stack, sentences, k, stopped, iters, why, text,
                   accepts>>

PushAny ==
    /\ pc = "closed" => Len(text) <= MaxReuse
    /\ \E chunk \in Chunks(IF pc = "closed" THEN <<>> ELSE text) : Push(chunk)

Next == PushAny \/ ScanStep \/ ScanEnd \/ Emit \/ Return \/ Close \/ CloseClear

Spec == Init /\ [][Next]_vars

(***************************************************************************)
(* Claims.                                                                 *)
(***************************************************************************)

\* C1 (chunk invariance): when close() has returned, the callback has been
\* invoked with exactly the sentences split(text) returns for the
\* concatenation text of the pushed chunks, however text was cut into chunks.
C1_ChunkInvariance ==
    pc = "closed" => (~splitHangs(text) /\ emitted = split(text))

\* C2 (totality / termination): every iteration of the scan loop moves the
\* scan position strictly forward, so a scan of a buffer of len characters
\* makes at most len iterations before it reaches the end or defers.
C2_ScanTerminates ==
    pc = "scan" => iters <= Len(buffer)

(***************************************************************************)
(* Helpers of the claims, over the pushed text.                            *)
(***************************************************************************)
HasNonSpace(t) == \E x \in 1..Len(t) : ~IsSpace(t[x])

\* t is ws* ss[1] ws* ss[2] ... ss[n] ws*, every ws* a run of whitespace
RECURSIVE Covers(_, _)
Covers(t, ss) ==
    IF ss = <<>> THEN ~HasNonSpace(t)
    ELSE LET u == TrimStart(t)
         IN  /\ IsPrefix(ss[1], u)
             /\ Covers(SubSeq(u, Len(ss[1]) + 1, Len(u)), Tail(ss))

\* The whitespace-delimited token of t that holds position p (0-based).
WsToken(t, p) ==
    IF IsSpace(At(t, p)) THEN <<>> ELSE getTokenFromBuffer(t, TokenBack(t, p) + 1)

\* C3 (content preservation): between calls, the sentences emitted so far
\* followed by what close() would emit are consecutive, disjoint pieces of
\* the pushed text in input order, and every character of the text outside
\* them is whitespace at their edges; after close() the emitted sentences
\* alone are.
C3_ContentPreserved ==
    pc \in {"idle", "closed"} => Covers(text, emitted \o Remainder(buffer))

C3_Witness ==
    /\ pc = "closed"
    /\ Len(emitted) = 2
    /\ Len(emitted[1]) + Len(emitted[2]) + 2 <= Len(text)

\* C4 (trimmed, non-empty): every string the callback has been invoked with,
\* by push or by close, is non-empty and neither starts nor ends with
\* whitespace.
C4_EmittedTrimmed ==
    \A x \in 1..Len(emitted) :
        /\ Len(emitted[x]) > 0
        /\ ~IsSpace(emitted[x][1])
        /\ ~IsSpace(emitted[x][Len(emitted[x])])

C4_Witness ==
    /\ pc = "closed"
    /\ Len(emitted) = 2
    /\ IsSpace(text[1])
    /\ IsSpace(text[Len(text)])
    /\ \E x \in 1..Len(text) : text[x] = " " /\ x > 1 /\ x < Len(text)

\* C5 (deferral): every boundary push has accepted is followed, after its
\* consumed run, by a non-whitespace character already received, and after
\* every push the buffer still holds a non-whitespace character whenever the
\* text has one, so that the last sentence is left to close().
C5_Deferral ==
    /\ \A a \in accepts :
          /\ a.j < a.n
          /\ a.n < Len(text)
          /\ ~IsSpace(At(text, a.n))
          /\ \A x \in (a.j + 1)..(a.n - 1) : IsSpace(At(text, x))
    /\ pc = "idle" /\ HasNonSpace(text) => HasNonSpace(buffer)

\* a scan that accepted one boundary and then deferred the next candidate
C5_Witness ==
    /\ pc = "emit"
    /\ why = "defer"
    /\ Len(sentences) = 1
    /\ flushIndex < i

\* C6 (close): close() invokes the callback once with the trimmed buffer when
\* the buffer holds a non-whitespace character, and not at all otherwise, and
\* leaves the buffer empty.
C6_CloseFlushes ==
    [][ /\ pc = "idle" /\ pc' = "closing" =>
              /\ buffer' = buffer
              /\ emitted' = IF HasNonSpace(buffer)
                            THEN Append(emitted, TrimEnd(TrimStart(buffer)))
                            ELSE emitted
        /\ pc = "closing" =>
              /\ pc' = "closed"
              /\ buffer' = <<>>
              /\ emitted' = emitted ]_vars

\* close() has flushed a text with an open bracket and no terminator at its end
C6_Witness ==
    /\ pc = "closed"
    /\ Len(emitted) = 1
    /\ emitted[1][1] = "("
    /\ \A x \in 1..Len(text) : text[x] # ")"
    /\ IsSpace(text[Len(text)])
    /\ text[Len(text) - 1] = "a"

\* The nesting stack after the characters 0 .. m-1 of t, every character
\* counted.
RECURSIVE TextStack(_, _)
TextStack(t, m) ==
    IF m = 0 THEN <<>> ELSE updateStack(At(t, m - 1), TextStack(t, m - 1), m - 1, t)

\* The opening bracket at o is closed by the closing bracket at q.
BracketPair(t, o, q) ==
    /\ At(t, o) \in OPENING
    /\ o < q
    /\ Len(TextStack(t, q + 1)) < Len(TextStack(t, o + 1))
    /\ \A x \in (o + 1)..(q - 1) : Len(TextStack(t, x + 1)) >= Len(TextStack(t, o + 1))

\* C7 (no split inside nesting), for brackets: no boundary is accepted at a
\* terminator that lies between an opening bracket and its matching closing
\* bracket.
C7_NoSplitInsideBrackets ==
    \A a \in accepts :
        ~ \E o \in 0..(a.i - 1) : \E q \in (a.i + 1)..(Len(text) - 1) : BracketPair(text, o, q)

\* The words s and a are the same but for the case of their ASCII letters.
SameButCase(s, a) ==
    /\ Len(s) = Len(a)
    /\ \A x \in 1..Len(s) :
          \/ s[x] = a[x]
          \/ \E y \in 1..26 : {s[x], a[x]} = {UpperCase[y], LowerCase[y]}

\* The test of the abbreviation guard as the claim words it: the token,
\* without a possessive ending and without its final periods, is an
\* abbreviation of the list, in any case.
ClaimedAbbreviation(t) ==
    \E a \in ABBREVIATIONS : SameButCase(StripPeriods(StripPossessive(t)), a)

\* C8 (abbreviation guard): no boundary is accepted at a period whose
\* whitespace-delimited token is an abbreviation, with or without a
\* possessive ("'s" or U+2019 "s"), however the text is cut into chunks.
\* The code reads the token only to the end of the buffer: after
\* push("p..", U+2019) the token is "p.." U+2019, no abbreviation, and the
\* boundary at the first period is accepted; the "s" that makes the token
\* the possessive of "p" comes with the next push.
C8_AbbreviationGuard ==
    \A a \in accepts :
        At(text, a.i) = "." => ~ClaimedAbbreviation(WsToken(text, a.i))

\* C9 (URL / e-mail guard): no boundary is accepted at a terminator inside a
\* whitespace-delimited token that contains "@" or a URL scheme and does not
\* end with a terminator.
C9_UrlEmailGuard ==
    \A a \in accepts :
        LET t == WsToken(text, a.i)
        IN  ~(t # <<>> /\ isUrlOrEmail(t) /\ ~isSentenceTerminator(t[Len(t)]))

\* C10 as claimed (no-gap guard): every accepted boundary has whitespace
\* between its consumed run and the next non-whitespace character.
C10_GapAfterRun ==
    \A a \in accepts : a.n > a.j + 1

\* C10 as amended: no boundary is accepted at a candidate terminator whose
\* next character is neither whitespace, nor a terminator, nor a trailing
\* character.
C10_NoGapGuard ==
    \A a \in accepts :
        /\ a.i + 1 < Len(text)
        /\ LET x == At(text, a.i + 1)
           IN  IsSpace(x) \/ isSentenceTerminator(x) \/ isTrailingChar(x)

\* the scan has skipped a terminator directly followed by a letter, and a
\* boundary was accepted elsewhere in the text
C10_Witness ==
    /\ pc = "scan"
    /\ why = "nogap"
    /\ i < Len(buffer)
    /\ IsLetter(At(buffer, i))
    /\ accepts # {}

\* The text t is letters, then a run of two or more "!" or "?", then letters;
\* b is the length of the part that ends with the run.
IsRunThenText(t, b) ==
    /\ b + 1 <= Len(t)
    /\ \E a \in 1..(b - 2) :
          /\ \A x \in 1..a : IsLetter(t[x])
          /\ \A x \in (a + 1)..b : t[x] \in {"!", "?"}
    /\ \A x \in (b + 1)..Len(t) : IsLetter(t[x])

\* C11 (run of terminators directly followed by text): a text made of
\* letters, a run of two or more terminators and letters again, with no
\* whitespace, is split after the run, however it is cut into chunks:
\* "text!?text" gives "text!?" and "text", and the same with two
\* ideographic full stops.
C11_RunThenText ==
    pc = "closed" =>
        /\ \A b \in 3..Len(text) :
              IsRunThenText(text, b) =>
                  emitted = <<SubSeq(text, 1, b), SubSeq(text, b + 1, Len(text))>>
        /\ text = <<"t","e","x","t","u3002","u3002","t","e","x","t">> =>
              emitted = << <<"t","e","x","t","u3002","u3002">>, <<"t","e","x","t">> >>

\* "text!?text" was pushed, in one chunk or in several, and closed with the
\* two sentences delivered
C11_Witness ==
    /\ pc = "closed"
    /\ text = <<"t","e","x","t","!","?","t","e","x","t">>
    /\ emitted = << <<"t","e","x","t","!","?">>, <<"t","e","x","t">> >>

\* At p the text has a newline with no newline before it, whose next
\* character is not whitespace, not a terminator and not a trailing character.
IsSingleNewline(t, p) ==
    /\ At(t, p) = "\n"
    /\ p > 0 => At(t, p - 1) # "\n"
    /\ p + 1 < Len(t)
    /\ LET x == At(t, p + 1)
       IN  ~IsSpace(x) /\ ~isSentenceTerminator(x) /\ ~isTrailingChar(x)

\* The boundary a puts the characters before p and after p into different
\* sentences: the sentence ends at a.j, the next one starts at a.n.
Separates(a, p) == a.i <= p /\ p < a.n

\* C12 as claimed (single newline): the text on both sides of a single
\* newline followed by an ordinary character is never put into different
\* sentences.
C12_NewlineNeverSeparates ==
    \A a \in accepts : \A p \in 0..(Len(text) - 1) :
        IsSingleNewline(text, p) => ~Separates(a, p)

\* C12 as amended: a single newline followed by an ordinary character is
\* never the terminator at which a boundary is accepted; the text on its two
\* sides is separated only by a boundary accepted at an earlier terminator
\* with nothing but terminators, trailing characters and whitespace up to the
\* newline; "First line\nSecond line" is delivered as one sentence.
C12_NewlineNotBoundary ==
    /\ \A a \in accepts : \A p \in 0..(Len(text) - 1) :
          IsSingleNewline(text, p) =>
              /\ a.i # p
              /\ Separates(a, p) =>
                    \A x \in a.i..p :
                        LET c == At(text, x)
                        IN  isSentenceTerminator(c) \/ isTrailingChar(c) \/ IsSpace(c)
    /\ pc = "closed"
       /\ text = <<"F","i","r","s","t"," ","l","i","n","e","\n","S","e","c","o","n","d"," ","l","i","n","e">>
       => emitted = <<text>>

\* "First line\nSecond line" was pushed and closed, and one sentence with the
\* newline inside was delivered
C12_Witness ==
    /\ pc = "closed"
    /\ Len(text) = 22
    /\ At(text, 10) = "\n"
    /\ emitted = <<text>>

\* The flush index, as a position of text, when the scan is at position p:
\* the end of the consumed run of the last boundary accepted before p.
FlushAt(p) ==
    LET S == {b.j + 1 : b \in {b \in accepts : b.i < p}}
    IN  IF S = {} THEN 0 ELSE CHOOSE m \in S : \A x \in S : x <= m

\* The flush index when the boundary a was decided.
FlushBefore(a) == FlushAt(a.i)

\* The flush index after all the boundaries accepted so far.
LastFlush == FlushAt(Len(text))

\* The list marker as the claim words it: digits only, preceded by the start
\* of the unflushed text or by a newline.
ClaimedListMarker(cur) ==
    \E m \in 1..Len(cur) :
        /\ \A x \in m..Len(cur) : IsDigit(cur[x])
        /\ m = 1 \/ cur[m - 1] = "\n"

\* C13 (numbered-list guard): no boundary is accepted at a terminator when
\* the text from the flush index up to it is a list marker, and the three
\* numbered lines of the test are delivered as three sentences, each with its
\* number.
C13_NumberedListGuard ==
    /\ \A a \in accepts : ~ClaimedListMarker(Substring(text, FlushBefore(a), a.i))
    /\ pc = "closed" /\ Len(text) = 40 /\ SubSeq(text, 1, 6) = <<"1", ".", " ", "1", "s", "t">>
       => emitted = <<SubSeq(text, 1, 12), SubSeq(text, 14, 25), SubSeq(text, 27, 40)>>

\* the period of a list marker on a new line was skipped after an earlier
\* sentence had been accepted
C13_Witness ==
    /\ pc = "scan"
    /\ why = "list"
    /\ accepts # {}
    /\ i >= 2
    /\ At(buffer, i - 1) = "."
    /\ IsDigit(At(buffer, i - 2))

\* C14 (lowercase-continuation guard): no boundary is accepted at a period
\* whose next non-whitespace character, after the period or after its
\* consumed run, is a lowercase ASCII letter; "Wait... what" is delivered as
\* one sentence.
C14_LowercaseGuard ==
    /\ \A a \in accepts :
          At(text, a.i) = "." =>
              \A m \in {a.n, SkipSpaces(text, a.i + 1)} :
                  m < Len(text) => At(text, m) \notin Range(LowerCase)
    /\ pc = "closed" /\ text = <<"W","a","i","t",".",".","."," ","w","h","a","t">>
       => emitted = <<text>>

\* the scan has skipped a period followed by whitespace and a lowercase
\* letter, after a boundary was accepted earlier in the text
C14_Witness ==
    /\ pc = "scan"
    /\ why = "lowercase"
    /\ accepts # {}
    /\ i + 1 < Len(buffer)
    /\ At(buffer, i - 1) = "."
    /\ IsSpace(At(buffer, i))
    /\ At(buffer, SkipSpaces(buffer, i)) \in Range(LowerCase)

\* Initials as the claim words them: one or more single ASCII letters, each
\* followed by a period.
ClaimedInitials(t) ==
    /\ t # <<>>
    /\ \A x \in 1..Len(t) :
          \/ t[x] = "." /\ x > 1 /\ t[x - 1] # "."
          \/ t[x] \in Range(LowerCase) \cup Range(UpperCase) /\ x < Len(t) /\ t[x + 1] = "."
    /\ t[1] # "."

\* C15 (initials guard): no boundary is accepted at a period that ends a
\* whitespace-delimited token made of initials when the next non-whitespace
\* character is an uppercase ASCII letter; "J.R.R. Tolkien" and "My name is
\* Jonas E. Smith." are delivered as one sentence each.
C15_InitialsGuard ==
    /\ \A a \in accepts :
          LET t == WsToken(text, a.i)
              m == SkipSpaces(text, a.i + 1)
          IN  ~ /\ At(text, a.i) = "."
                /\ ClaimedInitials(t)
                /\ m < Len(text)
                /\ At(text, m) \in Range(UpperCase)
    /\ pc = "closed"
       /\ \/ text = <<"J",".","R",".","R","."," ","T","o","l","k","i","e","n">>
          \/ Len(text) = 26 /\ SubSeq(text, 1, 7) = <<"M","y"," ","n","a","m","e">>
       => emitted = <<text>>

\* the scan has skipped the last period of "J.R.R." before " T"
C15_Witness ==
    /\ pc = "scan"
    /\ why = "initials"
    /\ i = 6
    /\ Substring(buffer, 0, 8) = <<"J",".","R",".","R","."," ","T">>

\* The sentence is exactly an ellipsis, as the claim words it.
ClaimedEllipsis(s) == s \in {<<".", ".", ".">>, <<"u2026">>}

\* C16 as claimed (an ellipsis never stands alone): no sentence delivered by
\* push or by close is exactly "..." or the ellipsis character.
C16_NeverEllipsisAlone ==
    \A x \in 1..Len(emitted) : ~ClaimedEllipsis(emitted[x])

\* C16 as amended: push never delivers a sentence that is exactly an
\* ellipsis; only close can, as the last sentence, when the ellipsis is all
\* that is left in the buffer. "Are you coming? ... I don't know." is
\* delivered as "Are you coming?" and "... I don't know.".
C16_PushNeverEllipsisAlone ==
    /\ \A x \in 1..Len(sentences) : ~ClaimedEllipsis(sentences[x])
    /\ \A x \in 1..Len(emitted) :
          ClaimedEllipsis(emitted[x]) =>
              /\ pc \in {"closing", "closed"}
              /\ x = Len(emitted)
              /\ ClaimedEllipsis(trim(Substring(text, LastFlush, Len(text))))
    /\ pc = "closed" /\ Len(text) = 33 /\ SubSeq(text, 1, 3) = <<"A", "r", "e">>
       => emitted = <<SubSeq(text, 1, 15), SubSeq(text, 17, 33)>>

\* the scan has skipped the boundary after a leading "..." that had an
\* accepted sentence before it and an upper-case word after it
C16_Witness ==
    /\ pc = "scan"
    /\ why = "ellipsis"
    /\ accepts # {}
    /\ Len(buffer) >= 5
    /\ IsUpper(At(buffer, SkipSpaces(buffer, 4)))

\* The branch _process takes for the candidate at position p of t when the
\* flush index is f and the nesting stack is empty.
Decide(t, f, p) == ScanIter(t, [ScanStart EXCEPT !.i = p, !.flushIndex = f]).why

\* C17 (decision stability): a boundary that was accepted, with its lookahead
\* character in the buffer, is accepted again when the same candidate is
\* decided on the text as it has grown since.
C17_DecisionStable ==
    \A a \in accepts : Decide(text, FlushBefore(a), a.i) = "accept"

\* C18 (buffer invariant): whenever push has returned, the buffer is the
\* text pushed since construction or the last close, from the end of the
\* consumed run of the last accepted boundary on, or all of it when no
\* boundary was accepted, with nothing removed or trimmed.
C18_BufferInvariant ==
    pc = "idle" => buffer = Substring(text, LastFlush, Len(text))

\* push has returned after a boundary was accepted, and the buffer starts
\* with the whitespace that followed the consumed run
C18_Witness ==
    /\ pc = "idle"
    /\ accepts # {}
    /\ Len(buffer) >= 2
    /\ IsSpace(buffer[1])
    /\ Len(buffer) < Len(text)

\* The opening bracket at o has no matching closing bracket in the text t.
IsUnmatchedOpener(t, o) ==
    /\ At(t, o) \in OPENING
    /\ ~ \E q \in (o + 1)..(Len(t) - 1) : BracketPair(t, o, q)

\* C19 (unmatched opener): no boundary is accepted after an opening bracket
\* that was in the unflushed text when the boundary was decided and that has
\* no matching closing bracket in the text pushed so far.
C19_UnmatchedOpenerBlocks ==
    \A a \in accepts :
        \A o \in FlushBefore(a)..(a.i - 1) : ~IsUnmatchedOpener(text, o)

\* One iteration of the scan loop is taken by this step.
IsScanStep == pc = "scan" /\ pc' = "scan" /\ iters' = iters + 1

\* C20 (stray closer): an iteration of the scan at a closing bracket that
\* does not match the top of the nesting stack, the empty stack included,
\* leaves the stack, the flush index and the sentences as they are and moves
\* on by one character without stopping the scan; and an iteration at a
\* terminator that follows a closing bracket, with the stack empty, treats
\* the terminator as a candidate.
C20_StrayCloserIgnored ==
    [][ /\ ( /\ IsScanStep
             /\ At(buffer, i) \in DOMAIN MATCHING
             /\ stack = <<>> \/ Top(stack) # MATCHING[At(buffer, i)] )
           => /\ stack' = stack
              /\ i' = i + 1
              /\ ~stopped'
              /\ flushIndex' = flushIndex
              /\ sentences' = sentences
        /\ ( /\ IsScanStep
             /\ stack = <<>>
             /\ i > 0
             /\ At(buffer, i - 1) \in DOMAIN MATCHING
             /\ isSentenceTerminator(At(buffer, i)) )
           => why' # "plain" ]_vars

\* the text starts with a closing bracket, a boundary was accepted at the
\* terminator right after it, and the scan has then passed a closing bracket
\* with a quotation mark on top of the stack
C20_Witness ==
    /\ pc = "scan"
    /\ Len(text) >= 3
    /\ text[1] = ")"
    /\ \E a \in accepts : a.i = 1
    /\ i >= 2
    /\ At(buffer, i - 1) = ")"
    /\ why = "plain"
    /\ stack = <<"\"">>

\* At position p the text t has an apostrophe with an ASCII letter
\* immediately before and immediately after it.
IsContraction(t, p) ==
    /\ At(t, p) = "'"
    /\ p > 0
    /\ p + 1 < Len(t)
    /\ At(t, p - 1) \in Range(LowerCase) \cup Range(UpperCase)
    /\ At(t, p + 1) \in Range(LowerCase) \cup Range(UpperCase)

\* C21 (contractions): while the scan is at a character of the buffer, the
\* nesting stack holds an apostrophe only if an apostrophe that is not
\* inside a contraction lies in the scanned part of the buffer; the two
\* sentences with contractions are split as the test expects, however they
\* are cut into chunks.
C21_ContractionIgnored ==
    /\ pc = "scan" /\ i < Len(buffer) =>
          \A y \in 1..Len(stack) :
              stack[y] = "'" =>
                  \E x \in 0..(i - 1) : At(buffer, x) = "'" /\ ~IsContraction(text, Base + x)
    /\ pc = "closed" /\ Len(text) = 36 /\ SubSeq(text, 1, 3) = <<"Y", "o", "u">>
       => emitted = <<SubSeq(text, 1, 21), SubSeq(text, 23, 36)>>

\* a boundary was accepted at a terminator with a contraction between the
\* flush index and the terminator
C21_Witness ==
    /\ pc = "scan"
    /\ why = "accept"
    /\ \E a \in accepts :
          \E x \in FlushBefore(a)..(a.i - 1) : IsContraction(text, x)

\* C22 (runs are kept whole): the consumed run of every accepted boundary is
\* all the terminators that directly follow its terminator and then all the
\* trailing characters that directly follow those, in the text as pushed so
\* far; the test with excessive punctuation gives its four sentences.
C22_RunNeverDivided ==
    /\ \A a \in accepts :
          /\ a.j + 1 < Len(text)
          /\ ~isTrailingChar(At(text, a.j + 1))
          /\ \E m \in a.i..a.j :
                /\ \A x \in a.i..m : isSentenceTerminator(At(text, x))
                /\ ~isSentenceTerminator(At(text, m + 1))
                /\ \A x \in (m + 1)..a.j : isTrailingChar(At(text, x))
    /\ pc = "closed" /\ Len(text) = 51 /\ SubSeq(text, 1, 4) = <<"W", "a", "i", "t">>
       => emitted = <<SubSeq(text, 1, 8), SubSeq(text, 10, 24),
                      SubSeq(text, 26, 42), SubSeq(text, 44, 51)>>

\* a boundary was accepted whose consumed run has two terminators and then a
\* trailing character
C22_Witness ==
    /\ pc = "scan"
    /\ why = "accept"
    /\ \E a \in accepts :
          /\ a.j >= a.i + 2
          /\ isSentenceTerminator(At(text, a.i + 1))
          /\ isTrailingChar(At(text, a.j))

\* C23 (forward-only scan): in every iteration of the scan loop the flush
\* index does not decrease and stays at or below the scan position, the scan
\* position does not move backwards, the flush index changes only in an
\* iteration that accepts a boundary, and every skip and the deferral leave
\* it as it is.
C23_ForwardOnly ==
    [][ IsScanStep =>
          /\ flushIndex <= i
          /\ flushIndex' >= flushIndex
          /\ flushIndex' <= i'
          /\ i' >= i
          /\ flushIndex' # flushIndex => why' = "accept" /\ accepts' # accepts
          /\ why' \in {"list", "nogap", "url", "abbreviation", "initials", "lowercase",
                       "ellipsis", "defer", "plain"} => flushIndex' = flushIndex ]_vars

\* the scan has skipped a token with "@" from a candidate that was not at the
\* start of the buffer, after a boundary accepted in the same pass
C23_Witness ==
    /\ pc = "scan"
    /\ why = "url"
    /\ flushIndex > 0
    /\ i > flushIndex

\* C24 (cut before the callbacks): whenever push invokes the callback, the
\* buffer has already been cut down to the text after the consumed run of
\* the last boundary accepted in the scan, and the callback loop leaves it
\* unchanged.
C24_CutBeforeCallback ==
    [][ pc = "emit" /\ emitted' # emitted =>
          /\ buffer = Substring(text, LastFlush, Len(text))
          /\ \A a \in accepts : a.j < Len(text) - Len(buffer)
          /\ buffer' = buffer ]_vars

\* the callback has been invoked once in this push, a second accepted
\* sentence is still to be delivered, and the buffer holds the text after it
C24_Witness ==
    /\ pc = "emit"
    /\ k = 1
    /\ Len(sentences) >= 2
    /\ Len(emitted) >= 1
    /\ buffer # <<>>
    /\ Len(buffer) < Len(text)

\* C25 (re-scanning is idempotent): whenever push has returned, a scan of the
\* buffer as it is, from the start and with an empty nesting stack, ends,
\* accepts no boundary, hands no sentence to the callback and leaves the
\* buffer as it is.
C25_RescanIdempotent ==
    pc = "idle" =>
        LET s == scanOf(buffer)
        IN  /\ s.why # "hang"
            /\ s.flushIndex = 0
            /\ s.sentences = <<>>
            /\ bufferFrom(buffer, s.flushIndex) = buffer

\* push has returned after a boundary was accepted, and the buffer kept holds
\* a terminator followed by whitespace and a further character
C25_Witness ==
    /\ pc = "idle"
    /\ accepts # {}
    /\ \E x \in 1..(Len(buffer) - 2) :
          /\ isSentenceTerminator(buffer[x])
          /\ IsSpace(buffer[x + 1])
          /\ ~IsSpace(buffer[x + 2])

\* C26 (close resets): every close leaves the splitter in the state of a
\* newly constructed one, with an empty buffer and no scan in progress, so
\* that what follows is what follows construction; and a close that follows
\* a close invokes the callback zero times.
C26_CloseResets ==
    [][ /\ pc' = "closed" =>
              <<buffer', i', flushIndex', stack', sentences', k', stopped', iters', why'>>
                 = <<<<>>, 0, 0, <<>>, <<>>, 0, FALSE, 0, "none">>
        /\ pc = "closed" /\ pc' = "closing" => emitted' = <<>> ]_vars

\* the splitter was closed with a sentence delivered from a buffer that was
\* not empty; a second close or a further push can follow
C26_Witness ==
    /\ pc = "closed"
    /\ emitted # <<>>
    /\ Len(text) <= MaxReuse
    /\ buffer = <<>>
====
